---- MODULE Spec2Model ----
(***************************************************************************)
(* Model of pyfaf/opsys/fedora.py (class Fedora): the report/package       *)
(* reconciliation (_save_packages, save_ureport), the policy check         *)
(* (validate_packages), the release-to-branch mapping, the build merge     *)
(* (get_released_builds) and the release ignore filter (_is_ignored).      *)
(*                                                                         *)
(* Strings that the code inspects character by character (release          *)
(* identifiers, glob patterns, completion times) are sequences of          *)
(* one-character strings.  Strings that the code only compares for         *)
(* equality (names, role tags, desktops) are TLA+ strings.                 *)
(***************************************************************************)
EXTENDS Integers, Sequences, FiniteSets, TLC

VARIABLES
    reportpackages,    \* table ReportPackage: rows [report, installed_package, type, count]
    unknownpackages,   \* table ReportUnknownPackage: rows [report, type, name, ..., arch, count]
    reldesktops,       \* table ReportReleaseDesktop: rows [report, release, desktop, count]
    pc,                \* where save_ureport stands: "idle", or in the loop of _save_packages
    call,              \* the arguments of the save_ureport call in progress
    package,           \* the package record the loop of _save_packages handled last
    seen,              \* the identities the loop has handled in this call
    target,            \* the (report, package record, count) of the repeated reconciliation
    ntimes,            \* how many times target's record was reconciled for target's report
    arg,               \* the arguments of the function under call
    ret                \* the outcome of that call

vars == <<reportpackages, unknownpackages, reldesktops, pc, call, package, seen,
          target, ntimes, arg, ret>>

store == <<reportpackages, unknownpackages, reldesktops>>

(***************************************************************************)
(* Bounds of the model.                                                    *)
(***************************************************************************)
MaxPkgs == 2        \* longest pkg list of one save_ureport call
MaxCount == 2       \* largest increment a caller supplies
MaxTotal == 2       \* calls stop once the counts of the store add up to this
MaxTimes == 4       \* most reconciliations of one record in the repeat scenario

(***************************************************************************)
(* The two optional dictionary keys when absent.                           *)
(***************************************************************************)
NoRole == "<no package_role key>"
NoDesktop == "<no desktop key>"

(***************************************************************************)
(* The catalog the reconciliation reads and never writes: tables Package,  *)
(* Arch and OpSysRelease.  A catalogued package refers to a catalogued     *)
(* architecture.                                                           *)
(***************************************************************************)
Nevra(n, a) ==
    [name |-> n, epoch |-> 0, version |-> "1.0", release |-> "1.fc20", architecture |-> a]

Archs == {"x86_64"}
Packages == {Nevra("foo", "x86_64")}
Releases == {"20"}
nice_name == "Fedora"

(***************************************************************************)
(* The inputs: reports, package records (a NEVRA and an optional           *)
(* package_role), uReports (a version and an optional desktop).            *)
(***************************************************************************)
Reports == {"R1", "R2"}
Nevras == {Nevra("foo", "x86_64"), Nevra("bar", "x86_64"), Nevra("baz", "mips")}
RoleTags == {NoRole, "affected", "related", "selinux_policy"}

PackageRecord(nv, tag) ==
    [name |-> nv.name, epoch |-> nv.epoch, version |-> nv.version, release |-> nv.release,
     architecture |-> nv.architecture, package_role |-> tag]

PackageRecords == {PackageRecord(nv, tag) : nv \in Nevras, tag \in RoleTags}

NevraOf(pkg) ==
    [name |-> pkg.name, epoch |-> pkg.epoch, version |-> pkg.version,
     release |-> pkg.release, architecture |-> pkg.architecture]

SeqsUpTo(S, n) == UNION {[1..m -> S] : m \in 0..n}

UReports ==
    {[version |-> "20", desktop |-> NoDesktop],
     [version |-> "20", desktop |-> "gnome"],
     [version |-> "20", desktop |-> "kde"],
     [version |-> "99", desktop |-> "gnome"]}

Counts == 1..MaxCount

(***************************************************************************)
(* pyfaf.queries: each lookup is the set of rows matching the arguments    *)
(* it is called with; the code takes the first of them, and gets None      *)
(* when there is none.                                                     *)
(***************************************************************************)
IsNone(found) == found = {}

First(found) == CHOOSE x \in found : TRUE

get_package_by_nevra(name, epoch, version, release, arch) ==
    ({p \in Packages : p = [name |-> name, epoch |-> epoch, version |-> version,
                                 release |-> release, architecture |-> arch]})

get_arch_by_name(name) == {a \in Archs : a = name}

get_osrelease(opsys, version) ==
    IF opsys = nice_name THEN {r \in Releases : r = version} ELSE {}

get_reportpackage(rp, db_report, db_package) ==
    {row \in rp : row.report = db_report /\ row.installed_package = db_package}

get_unknown_package(up, db_report, role, name, epoch, version, release, arch) ==
    {row \in up : /\ row.report = db_report
                        /\ row.type = role
                        /\ row.name = name
                        /\ row.epoch = epoch
                        /\ row.version = version
                        /\ row.release = release
                        /\ row.arch = arch}

get_report_release_desktop(rd, db_report, db_release, desktop) ==
    {row \in rd : /\ row.report = db_report
                        /\ row.release = db_release
                        /\ row.desktop = desktop}

(***************************************************************************)
(* _save_packages, lines 132-137: the role classification.                 *)
(***************************************************************************)
RoleOf(pkg) ==
    IF pkg.package_role # NoRole
    THEN IF pkg.package_role = "affected" THEN "CRASHED"
         ELSE IF pkg.package_role = "selinux_policy" THEN "SELINUX_POLICY"
         ELSE "RELATED"
    ELSE "RELATED"

(***************************************************************************)
(* The rows the code creates (count = 0) and the increment it applies.     *)
(* to_semver (semver, semrel of an unknown package) is derived from        *)
(* version and release alone and is left out of the row.                   *)
(***************************************************************************)
NewReportPackage(db_report, db_package, role) ==
    [report |-> db_report, installed_package |-> db_package, type |-> role, count |-> 0]

NewUnknownPackage(db_report, pkg, db_arch, role) ==
    [report |-> db_report, type |-> role, name |-> pkg.name, epoch |-> pkg.epoch,
     version |-> pkg.version, release |-> pkg.release, arch |-> db_arch,
     count |-> 0]

NewReleaseDesktop(db_report, db_release, desktop) ==
    [report |-> db_report, release |-> db_release, desktop |-> desktop, count |-> 0]

\* Faulty variants of AddCount: the increment is always 1; the count is lowered.
AddCountOnce(row, count) == [row EXCEPT !.count = @ + 1]

AddCountLowers(row, count) == [row EXCEPT !.count = @ - count]

\* lines 179, 191, 231: count += count
AddCount(row, count) == [row EXCEPT !.count = @ + count]

(***************************************************************************)
(* One iteration of the loop of _save_packages, lines 131-191, on the      *)
(* tables st = [rp, up, rd].  log_warn (line 146) changes no table.        *)
(***************************************************************************)
\* Faulty variant of SaveUnknownPackage: an unresolved architecture is not skipped.
SaveUnknownPackageNoSkip(st, db_report, pkg, role, count) ==
    LET db_unknown_pkg ==
            get_unknown_package(st.up, db_report, role, pkg.name, pkg.epoch, pkg.version,
                                pkg.release, pkg.architecture)
    IN  IF IsNone(db_unknown_pkg)
        THEN [st EXCEPT
                !.up = @ \cup {AddCount(NewUnknownPackage(db_report, pkg, pkg.architecture,
                                                         role),
                                        count)}]
        ELSE [st EXCEPT
                !.up = (@ \ {First(db_unknown_pkg)})
                           \cup {AddCount(First(db_unknown_pkg), count)}]

\* lines 153-180: the package is not in the catalog.
SaveUnknownPackage(st, db_report, pkg, role, count) ==
    LET db_unknown_pkg ==
            get_unknown_package(st.up, db_report, role, pkg.name, pkg.epoch, pkg.version,
                                pkg.release, pkg.architecture)
    IN  IF IsNone(db_unknown_pkg)
        THEN LET db_arch == get_arch_by_name(pkg.architecture)
             IN  IF IsNone(db_arch)
                 THEN st
                 ELSE [st EXCEPT
                         !.up = @ \cup {AddCount(NewUnknownPackage(db_report, pkg,
                                                                  First(db_arch), role),
                                                 count)}]
        ELSE [st EXCEPT
                !.up = (@ \ {First(db_unknown_pkg)})
                           \cup {AddCount(First(db_unknown_pkg), count)}]

\* Faulty variant of SaveKnownPackage: an association found takes the role of the record.
SaveKnownPackageRetyped(st, db_report, db_package, role, count) ==
    LET db_reportpackage == get_reportpackage(st.rp, db_report, db_package)
    IN  IF IsNone(db_reportpackage)
        THEN [st EXCEPT
                !.rp = @ \cup {AddCount(NewReportPackage(db_report, db_package, role),
                                        count)}]
        ELSE [st EXCEPT
                !.rp = (@ \ {First(db_reportpackage)})
                           \cup {AddCount([First(db_reportpackage) EXCEPT !.type = role],
                                          count)}]

\* lines 182-191: the package is in the catalog.
SaveKnownPackage(st, db_report, db_package, role, count) ==
    LET db_reportpackage == get_reportpackage(st.rp, db_report, db_package)
    IN  IF IsNone(db_reportpackage)
        THEN [st EXCEPT
                !.rp = @ \cup {AddCount(NewReportPackage(db_report, db_package, role),
                                        count)}]
        ELSE [st EXCEPT
                !.rp = (@ \ {First(db_reportpackage)})
                           \cup {AddCount(First(db_reportpackage), count)}]

\* Faulty variant of SavePackage: the continue of line 180 is missing, and the record goes on
\* to the association of lines 182-191.
SavePackageNoContinue(st, db_report, pkg, count) ==
    LET role == RoleOf(pkg)
        db_package == get_package_by_nevra(pkg.name, pkg.epoch, pkg.version, pkg.release,
                                           pkg.architecture)
    IN  IF IsNone(db_package)
        THEN SaveKnownPackage(SaveUnknownPackage(st, db_report, pkg, role, count),
                              db_report, NevraOf(pkg), role, count)
        ELSE SaveKnownPackage(st, db_report, First(db_package), role, count)

\* lines 132-145, then one of the two branches.
SavePackage(st, db_report, pkg, count) ==
    LET role == RoleOf(pkg)
        db_package == get_package_by_nevra(pkg.name, pkg.epoch, pkg.version, pkg.release,
                                           pkg.architecture)
    IN  IF IsNone(db_package)
        THEN SaveUnknownPackage(st, db_report, pkg, role, count)
        ELSE SaveKnownPackage(st, db_report, First(db_package), role, count)

(***************************************************************************)
(* save_ureport, lines 214-231: the desktop aggregation that precedes the  *)
(* call of _save_packages.  log_warn (line 217) changes no table.          *)
(***************************************************************************)
\* Faulty variant of SaveDesktop: a release the catalog lacks is aggregated all the same.
SaveDesktopAnyRelease(st, db_report, ureport, count) ==
    IF ureport.desktop # NoDesktop
    THEN LET db_reldesktop ==
                 get_report_release_desktop(st.rd, db_report, ureport.version,
                                            ureport.desktop)
         IN  IF IsNone(db_reldesktop)
             THEN [st EXCEPT
                     !.rd = @ \cup {AddCount(NewReleaseDesktop(db_report, ureport.version,
                                                              ureport.desktop),
                                             count)}]
             ELSE [st EXCEPT
                     !.rd = (@ \ {First(db_reldesktop)})
                                \cup {AddCount(First(db_reldesktop), count)}]
    ELSE st

SaveDesktop(st, db_report, ureport, count) ==
    IF ureport.desktop # NoDesktop
    THEN LET db_release == get_osrelease(nice_name, ureport.version)
         IN  IF IsNone(db_release)
             THEN st
             ELSE LET db_reldesktop ==
                          get_report_release_desktop(st.rd, db_report, First(db_release),
                                                     ureport.desktop)
                  IN  IF IsNone(db_reldesktop)
                      THEN [st EXCEPT
                              !.rd = @ \cup {AddCount(NewReleaseDesktop(db_report,
                                                                       First(db_release),
                                                                       ureport.desktop),
                                                      count)}]
                      ELSE [st EXCEPT
                              !.rd = (@ \ {First(db_reldesktop)})
                                         \cup {AddCount(First(db_reldesktop), count)}]
    ELSE st

Tables == [rp |-> reportpackages, up |-> unknownpackages, rd |-> reldesktops]

RECURSIVE SumCounts(_)
SumCounts(rows) ==
    IF rows = {} THEN 0
    ELSE LET row == CHOOSE r \in rows : TRUE
         IN  row.count + SumCounts(rows \ {row})

(***************************************************************************)
(* The steps of one save_ureport call.  The package list is drawn one      *)
(* record at a time, as the loop of _save_packages reaches it; it has at   *)
(* most MaxPkgs records.  The code is synchronous: no call starts before   *)
(* the one in progress has returned.                                       *)
(***************************************************************************)
NotCalled == [kind |-> "not called"]
Returned(value) == [kind |-> "return", value |-> value]
Raised(error, value) == [kind |-> "raise", error |-> error, value |-> value]
NoTarget == "<no target>"
NoCall == "<no call>"
NoPackage == "<no package>"

SetTables(st) ==
    /\ reportpackages' = st.rp
    /\ unknownpackages' = st.up
    /\ reldesktops' = st.rd

\* save_ureport is entered and aggregates the desktop: lines 214-231.
SaveUreportEnter(db_report, ureport, count) ==
    /\ pc = "idle"
    /\ SetTables(SaveDesktop(Tables, db_report, ureport, count))
    /\ pc' = "save_ureport"
    /\ call' = [db_report |-> db_report, ureport |-> ureport, count |-> count]
    /\ UNCHANGED <<package, seen>>

\* line 233: save_ureport calls _save_packages(db, db_report, packages, count=count).
SavePackagesEnter ==
    /\ pc = "save_ureport"
    /\ pc' = "_save_packages"
    /\ call' = [db_report |-> call.db_report, count |-> call.count, done |-> 0]
    /\ UNCHANGED <<store, package, seen>>

\* the loop of _save_packages takes the next record of the list: lines 131-191.
SavePackagesStep(pkg) ==
    /\ pc = "_save_packages"
    /\ call.done < MaxPkgs
    /\ SetTables(SavePackage(Tables, call.db_report, pkg, call.count))
    /\ call' = [call EXCEPT !.done = @ + 1]
    /\ package' = pkg
    /\ seen' = seen \cup {NevraOf(pkg)}
    /\ pc' = pc

\* the list is exhausted: _save_packages returns, save_ureport flushes (lines 235-236,
\* no table changes: the session already holds the rows) and returns.
SaveUreportReturn ==
    /\ pc = "_save_packages"
    /\ pc' = "idle"
    /\ call' = NoCall
    /\ package' = NoPackage
    /\ seen' = {}
    /\ UNCHANGED store

(***************************************************************************)
(* Specification Spec: any sequence of save_ureport calls, as long as the  *)
(* counts of the store add up to at most MaxTotal.                         *)
(***************************************************************************)
Init ==
    /\ reportpackages = {}
    /\ unknownpackages = {}
    /\ reldesktops = {}
    /\ pc = "idle"
    /\ call = NoCall
    /\ package = NoPackage
    /\ seen = {}
    /\ target = NoTarget
    /\ ntimes = 0
    /\ arg = NotCalled
    /\ ret = NotCalled

WithinTotal ==
    SumCounts(reportpackages') + SumCounts(unknownpackages') + SumCounts(reldesktops')
        <= MaxTotal

save_ureport ==
    /\ \E db_report \in Reports, ureport \in UReports, count \in Counts :
           SaveUreportEnter(db_report, ureport, count)
    /\ WithinTotal
    /\ UNCHANGED <<target, ntimes, arg, ret>>

save_packages_enter ==
    /\ SavePackagesEnter
    /\ UNCHANGED <<target, ntimes, arg, ret>>

save_packages ==
    /\ \E pkg \in PackageRecords : SavePackagesStep(pkg)
    /\ WithinTotal
    /\ UNCHANGED <<target, ntimes, arg, ret>>

save_ureport_return ==
    /\ SaveUreportReturn
    /\ UNCHANGED <<target, ntimes, arg, ret>>

Next == save_ureport \/ save_packages_enter \/ save_packages \/ save_ureport_return

Spec == Init /\ [][Next]_vars

(***************************************************************************)
(* What the properties below read off the tables and the steps.            *)
(***************************************************************************)
RowNevra(row) ==
    [name |-> row.name, epoch |-> row.epoch, version |-> row.version,
     release |-> row.release, architecture |-> row.arch]

AssociationsIn(rp, r, nv) == {row \in rp : row.report = r /\ row.installed_package = nv}

AggregatesIn(up, r, nv) == {row \in up : row.report = r /\ RowNevra(row) = nv}

DesktopsIn(rd, r, release, desktop) ==
    {row \in rd : row.report = r /\ row.release = release /\ row.desktop = desktop}

Key(row) == [row EXCEPT !.count = 0]

CatalogPresent(nv) == nv \in Packages

ArchResolved(nv) == nv.architecture \in Archs

\* The classification as the data model states it.
Classification(tag) ==
    CASE tag = "affected" -> "CRASHED"
      [] tag = "selinux_policy" -> "SELINUX_POLICY"
      [] OTHER -> "RELATED"

\* save_ureport has been entered by this step.
EnterStep == pc = "idle" /\ pc' # "idle"

\* The loop of _save_packages has handled the record package' in this step.
LoopStep == pc = "_save_packages" /\ pc' # "idle"

(***************************************************************************)
(* C2 as stated: after _save_packages has reconciled a list that mixes     *)
(* catalog-present and catalog-absent identities, exactly the              *)
(* catalog-absent ones have an UnknownPackageAggregate row, exactly the    *)
(* catalog-present ones have a ReportPackageAssociation row, and none has  *)
(* both.                                                                   *)
(***************************************************************************)
C2_PartitionAsStated ==
    (/\ pc = "_save_packages"
     /\ \E nv \in seen : CatalogPresent(nv)
     /\ \E nv \in seen : ~CatalogPresent(nv))
    => \A nv \in seen :
          LET assoc == AssociationsIn(reportpackages, call.db_report, nv)
              aggr == AggregatesIn(unknownpackages, call.db_report, nv)
          IN  /\ (aggr # {}) <=> ~CatalogPresent(nv)
              /\ (assoc # {}) <=> CatalogPresent(nv)
              /\ ~(assoc # {} /\ aggr # {})

(***************************************************************************)
(* C2 as amended: after _save_packages has reconciled the records of a     *)
(* list, exactly the catalog-absent identities whose architecture the      *)
(* catalog resolves have an UnknownPackageAggregate row, exactly the       *)
(* catalog-present ones have a ReportPackageAssociation row, and none has  *)
(* both; no table ever holds a row of the other kind of identity.          *)
(***************************************************************************)
C2_Partition ==
    /\ \A row \in reportpackages : CatalogPresent(row.installed_package)
    /\ \A row \in unknownpackages : ~CatalogPresent(RowNevra(row))
    /\ pc = "_save_packages" =>
         \A nv \in seen :
            LET assoc == AssociationsIn(reportpackages, call.db_report, nv)
                aggr == AggregatesIn(unknownpackages, call.db_report, nv)
            IN  /\ (aggr # {}) <=> (~CatalogPresent(nv) /\ ArchResolved(nv))
                /\ (assoc # {}) <=> CatalogPresent(nv)
                /\ ~(assoc # {} /\ aggr # {})

C2_Witness ==
    /\ pc = "_save_packages"
    /\ call.done = 2
    /\ seen = {Nevra("foo", "x86_64"), Nevra("bar", "x86_64")}
    /\ AssociationsIn(reportpackages, call.db_report, Nevra("foo", "x86_64")) # {}
    /\ AggregatesIn(unknownpackages, call.db_report, Nevra("bar", "x86_64")) # {}

(***************************************************************************)
(* C3: when the loop of _save_packages handles a record whose architecture *)
(* the catalog does not resolve, no table changes, no row of either kind   *)
(* exists for that identity, and the loop goes on: it neither raises nor   *)
(* returns early, and a record handled after the skipped one is            *)
(* reconciled (its row holds at least the supplied count).                 *)
(***************************************************************************)
C3_ArchMissSkip ==
    [][/\ (LoopStep /\ ~ArchResolved(NevraOf(package')))
          => /\ store' = store
             /\ pc' = "_save_packages"
             /\ \A r \in Reports :
                   /\ AssociationsIn(reportpackages', r, NevraOf(package')) = {}
                   /\ AggregatesIn(unknownpackages', r, NevraOf(package')) = {}
       /\ (/\ LoopStep
           /\ ArchResolved(NevraOf(package'))
           /\ \E nv \in seen : ~ArchResolved(nv))
          => \E row \in AssociationsIn(reportpackages', call.db_report, NevraOf(package'))
                    \cup AggregatesIn(unknownpackages', call.db_report, NevraOf(package')) :
                /\ row.type = Classification(package'.package_role)
                      \/ CatalogPresent(NevraOf(package'))
                /\ row.count >= call.count
                /\ row \notin reportpackages \cup unknownpackages
       /\ pc = "_save_packages" => pc' \in {"_save_packages", "idle"}
      ]_vars

C3_Witness ==
    /\ pc = "_save_packages"
    /\ Nevra("baz", "mips") \in seen
    /\ package = PackageRecord(Nevra("bar", "x86_64"), "affected")
    /\ AggregatesIn(unknownpackages, call.db_report, Nevra("bar", "x86_64")) # {}
    /\ \A r \in Reports : AggregatesIn(unknownpackages, r, Nevra("baz", "mips")) = {}

(***************************************************************************)
(* C4: every count of the three tables is non-negative; a step changes a   *)
(* count only by adding the count the caller supplied to save_ureport, a   *)
(* new row starts at that count, and no step lowers a count or removes a   *)
(* row.                                                                    *)
(***************************************************************************)
Grown(old, new, k) ==
    /\ \A row \in old :
          \E row2 \in new : Key(row2) = Key(row) /\ row2.count \in {row.count, row.count + k}
    /\ \A row2 \in new :
          /\ row2.count >= 0
          /\ (\E row \in old : Key(row) = Key(row2)) \/ row2.count = k
    /\ k = 0 => new = old

StepAmount ==
    IF EnterStep THEN call'.count
    ELSE IF LoopStep THEN call.count
    ELSE 0

C4_CountsOnlyGrow ==
    [][/\ Grown(reportpackages, reportpackages', StepAmount)
       /\ Grown(unknownpackages, unknownpackages', StepAmount)
       /\ Grown(reldesktops, reldesktops', StepAmount)
      ]_vars

C4_Witness ==
    /\ \E row \in reportpackages : row.count = 2
    /\ pc = "_save_packages"
    /\ call.count = 1

(***************************************************************************)
(* C8: entering save_ureport changes the desktop aggregates only when the  *)
(* uReport has a desktop and its release (Fedora, version) is in the       *)
(* catalog: then the one aggregate keyed (report, release, desktop) is     *)
(* found or created and grows by the supplied count, and every other row   *)
(* stays.  Without a desktop, or with a release the catalog lacks, no      *)
(* desktop aggregate is created or changed.  In each case the package      *)
(* list is then handed to _save_packages, and no later step of the call    *)
(* touches a desktop aggregate.                                            *)
(***************************************************************************)
C8_DesktopAggregation ==
    [][/\ EnterStep =>
            LET r == call'.db_report
                u == call'.ureport
                k == call'.count
                old == DesktopsIn(reldesktops, r, u.version, u.desktop)
                new == DesktopsIn(reldesktops', r, u.version, u.desktop)
            IN  /\ pc' = "save_ureport"
                /\ reportpackages' = reportpackages
                /\ unknownpackages' = unknownpackages
                /\ IF u.desktop # NoDesktop /\ u.version \in Releases
                   THEN /\ Cardinality(new) = 1
                        /\ Cardinality(old) <= 1
                        /\ \A row2 \in new :
                              row2.count = k + (IF old = {} THEN 0
                                                ELSE (CHOOSE row \in old : TRUE).count)
                        /\ reldesktops' \ new = reldesktops \ old
                   ELSE reldesktops' = reldesktops
       /\ pc = "save_ureport" => (pc' = "_save_packages" /\ store' = store)
       /\ pc # "idle" => reldesktops' = reldesktops
      ]_vars

C8_Witness ==
    /\ pc = "save_ureport"
    /\ call.ureport = [version |-> "20", desktop |-> "gnome"]
    /\ \E row \in DesktopsIn(reldesktops, call.db_report, "20", "gnome") : row.count = 2

(***************************************************************************)
(* C10: there is at most one ReportPackageAssociation per (report,         *)
(* identity); it gets the classification of the record that creates it     *)
(* (affected -> CRASHED, selinux_policy -> SELINUX_POLICY, anything else   *)
(* or no tag -> RELATED) and keeps it: a later record of the same pair,    *)
(* whatever its role tag, adds to the same count.  A catalog-absent        *)
(* package has one UnknownPackageAggregate per (report, classification,    *)
(* identity): a record with another classification adds to another row.    *)
(***************************************************************************)
C10_AssociationKey ==
    [][/\ \A row \in reportpackages :
             \E row2 \in reportpackages' :
                /\ row2.report = row.report
                /\ row2.installed_package = row.installed_package
                /\ row2.type = row.type
       /\ \A r \in Reports, nv \in Nevras :
             /\ Cardinality(AssociationsIn(reportpackages', r, nv)) <= 1
             /\ \A role \in {"CRASHED", "RELATED", "SELINUX_POLICY"} :
                   Cardinality({row \in AggregatesIn(unknownpackages', r, nv) :
                                   row.type = role}) <= 1
       /\ (LoopStep /\ CatalogPresent(NevraOf(package'))) =>
             LET old == AssociationsIn(reportpackages, call.db_report, NevraOf(package'))
                 new == AssociationsIn(reportpackages', call.db_report, NevraOf(package'))
             IN  /\ new # {}
                 /\ \A row2 \in new :
                       IF old = {}
                       THEN /\ row2.type = Classification(package'.package_role)
                            /\ row2.count = call.count
                       ELSE \A row \in old : /\ row2.type = row.type
                                             /\ row2.count = row.count + call.count
                 /\ reportpackages' \ new = reportpackages \ old
                 /\ unknownpackages' = unknownpackages
       /\ (LoopStep /\ ~CatalogPresent(NevraOf(package')) /\ ArchResolved(NevraOf(package'))) =>
             LET mine(up) == {row \in AggregatesIn(up, call.db_report, NevraOf(package')) :
                                 row.type = Classification(package'.package_role)}
             IN  /\ mine(unknownpackages') # {}
                 /\ \A row2 \in mine(unknownpackages') :
                       IF mine(unknownpackages) = {}
                       THEN row2.count = call.count
                       ELSE \A row \in mine(unknownpackages) :
                               row2.count = row.count + call.count
                 /\ unknownpackages' \ mine(unknownpackages')
                        = unknownpackages \ mine(unknownpackages)
                 /\ reportpackages' = reportpackages
      ]_vars

C10_Witness ==
    /\ pc = "_save_packages"
    /\ call.done > 0
    /\ package = PackageRecord(Nevra("foo", "x86_64"), "related")
    /\ \E row \in AssociationsIn(reportpackages, call.db_report, Nevra("foo", "x86_64")) :
          row.type = "CRASHED" /\ row.count = 2

(***************************************************************************)
(* Specification SpecRepeat: the same package record is reconciled again   *)
(* and again.  The store starts empty; target names a report, a package    *)
(* record and an increment; every save_ureport call for target's report    *)
(* is made with target's increment and every record of its list is         *)
(* target's record (ntimes counts them, up to MaxTimes).  Calls for the    *)
(* other reports reconcile the same record with any increment.             *)
(***************************************************************************)
InitRepeat ==
    /\ reportpackages = {}
    /\ unknownpackages = {}
    /\ reldesktops = {}
    /\ pc = "idle"
    /\ call = NoCall
    /\ package = NoPackage
    /\ seen = {}
    /\ target \in [report : Reports, package : PackageRecords, count : Counts]
    /\ ntimes = 0
    /\ arg = NotCalled
    /\ ret = NotCalled

repeat_save_ureport ==
    /\ \E db_report \in Reports, count \in Counts :
          /\ db_report = target.report => count = target.count
          /\ SaveUreportEnter(db_report, [version |-> "20", desktop |-> NoDesktop], count)
    /\ UNCHANGED <<target, ntimes, arg, ret>>

repeat_save_packages ==
    /\ SavePackagesStep(target.package)
    /\ IF call.db_report = target.report
       THEN ntimes < MaxTimes /\ ntimes' = ntimes + 1
       ELSE /\ SumCounts({row \in reportpackages' : row.report # target.report})
                 + SumCounts({row \in unknownpackages' : row.report # target.report})
                    <= MaxTotal
            /\ ntimes' = ntimes
    /\ UNCHANGED <<target, arg, ret>>

NextRepeat ==
    \/ repeat_save_ureport
    \/ save_packages_enter
    \/ repeat_save_packages
    \/ save_ureport_return

SpecRepeat == InitRepeat /\ [][NextRepeat]_vars

\* The rows of target's (report, package record) pair.
TargetRows ==
    LET nv == NevraOf(target.package)
    IN  AssociationsIn(reportpackages, target.report, nv)
            \cup {row \in AggregatesIn(unknownpackages, target.report, nv) :
                     row.type = Classification(target.package.package_role)}

(***************************************************************************)
(* C1 as stated: for any report R, package record P and increment k,       *)
(* after N reconciliations of (R, P) with increment k from a store with    *)
(* no row for the pair, the count of the pair's association or aggregate   *)
(* is k * N.                                                               *)
(***************************************************************************)
C1_MonotonicityAsStated ==
    ntimes > 0 => \E row \in TargetRows : row.count = target.count * ntimes

(***************************************************************************)
(* C1 as amended: for any report R, any package record P that is in the    *)
(* catalog or whose architecture the catalog resolves, and any increment   *)
(* k, after N reconciliations of (R, P) with increment k from a store      *)
(* with no row for the pair, the pair has exactly one row (an association  *)
(* if P is in the catalog, else an aggregate) and its count is k * N; a    *)
(* record whose architecture is not resolved and which is not in the       *)
(* catalog has no row at all.                                              *)
(***************************************************************************)
C1_Monotonicity ==
    LET nv == NevraOf(target.package)
    IN  IF CatalogPresent(nv) \/ ArchResolved(nv)
        THEN /\ ntimes = 0 => TargetRows = {}
             /\ ntimes > 0 =>
                   /\ Cardinality(TargetRows) = 1
                   /\ \A row \in TargetRows : row.count = target.count * ntimes
        ELSE /\ TargetRows = {}
             /\ AggregatesIn(unknownpackages, target.report, nv) = {}

C1_Witness ==
    /\ ntimes = 3
    /\ target.count = 2
    /\ target.package = PackageRecord(Nevra("bar", "x86_64"), "affected")
    /\ \E row \in TargetRows : row.count = 6
    /\ \E row \in unknownpackages : row.report # target.report

(***************************************************************************)
(* validate_packages, lines 197-211.  packages_checker.check (line 199)    *)
(* is the structural check: the lists here are structurally valid, and it  *)
(* passes.  pkg_roles is line 86.                                          *)
(***************************************************************************)
pkg_roles == <<"affected", "related", "selinux_policy">>

InList(x, list) == \E i \in 1..Len(list) : list[i] = x

RECURSIVE ValidateFrom(_, _, _, _)
ValidateFrom(packages, allow_unpackaged, i, affected) ==
    IF i > Len(packages)
    THEN IF ~(affected \/ allow_unpackaged)
         THEN Raised("FafError", "uReport must contain affected package")
         ELSE Returned(TRUE)
    ELSE IF packages[i].package_role # NoRole
         THEN IF ~InList(packages[i].package_role, pkg_roles)
              THEN Raised("FafError", "Only the following package roles are allowed")
              ELSE ValidateFrom(packages, allow_unpackaged, i + 1,
                                affected \/ packages[i].package_role = "affected")
         ELSE ValidateFrom(packages, allow_unpackaged, i + 1, affected)

\* Faulty variant of ValidatePackages: the allow_unpackaged flag is not consulted.
ValidatePackagesNoFlag(packages, allow_unpackaged) ==
    ValidateFrom(packages, FALSE, 1, FALSE)

ValidatePackages(packages, allow_unpackaged) ==
    ValidateFrom(packages, allow_unpackaged, 1, FALSE)

(***************************************************************************)
(* Specification SpecValidate: validate_packages is called on a            *)
(* structurally valid list of at most MaxPkgs records, with the            *)
(* allow_unpackaged flag of the configuration set or not.                  *)
(***************************************************************************)
ValidateTags == RoleTags \cup {"Affected", "crashed"}

ValidateRecords == {PackageRecord(Nevra("foo", "x86_64"), tag) : tag \in ValidateTags}

InitValidate ==
    /\ reportpackages = {}
    /\ unknownpackages = {}
    /\ reldesktops = {}
    /\ pc = "idle"
    /\ call = NoCall
    /\ package = NoPackage
    /\ seen = {}
    /\ target = NoTarget
    /\ ntimes = 0
    /\ arg \in [packages : SeqsUpTo(ValidateRecords, MaxPkgs), allow_unpackaged : BOOLEAN]
    /\ ret = NotCalled

validate_packages ==
    /\ ret = NotCalled
    /\ ret' = ValidatePackages(arg.packages, arg.allow_unpackaged)
    /\ UNCHANGED <<store, pc, call, package, seen, target, ntimes, arg>>

NextValidate == validate_packages

SpecValidate == InitValidate /\ [][NextValidate]_vars

StoreEmpty == reportpackages = {} /\ unknownpackages = {} /\ reldesktops = {}

(***************************************************************************)
(* C5: on a structurally valid list validate_packages raises FafError if   *)
(* some record carries a package_role outside {affected, related,          *)
(* selinux_policy}, or if no record carries "affected" while               *)
(* allow_unpackaged is false (so a related-only or an empty list fails     *)
(* with the flag false and passes with it true); otherwise it returns      *)
(* True; and it changes no table.                                          *)
(***************************************************************************)
C5_PolicyCheck ==
    ret # NotCalled =>
       LET tags == {arg.packages[i].package_role : i \in 1..Len(arg.packages)} \ {NoRole}
           illegal == tags \ {"affected", "related", "selinux_policy"} # {}
           unpackaged == "affected" \notin tags
       IN  /\ IF illegal \/ (unpackaged /\ ~arg.allow_unpackaged)
              THEN ret.kind = "raise" /\ ret.error = "FafError"
              ELSE ret = Returned(TRUE)
           /\ (tags \subseteq {"related"}) => (ret = Returned(TRUE) <=> arg.allow_unpackaged)
           /\ StoreEmpty

C5_Witness ==
    /\ Len(arg.packages) = 2
    /\ \A i \in 1..2 : arg.packages[i].package_role = "related"
    /\ ~arg.allow_unpackaged
    /\ ret # NotCalled
    /\ ret.kind = "raise"

(***************************************************************************)
(* fnmatch.fnmatchcase(name, pat), called at line 381: shell-style glob    *)
(* matching of the whole name, letter case kept.  In a pattern "*" stands  *)
(* for any run of characters, "?" for one character, "[seq]" for one       *)
(* character of seq (a range x-y or single characters), "[!seq]" for one   *)
(* character not of seq; a "[" that no "]" closes stands for itself.       *)
(***************************************************************************)
\* The characters of the model in code-point order.
CodePoints ==
    <<" ", "-", ".", "0", "1", "2", "3", "4", "5", "6", "7", "8", "9", ":", "A", "R",
      "[", "]", "a", "d", "e", "h", "i", "l", "p", "r", "w">>

Ord(c) == CHOOSE i \in 1..Len(CodePoints) : CodePoints[i] = c

RECURSIVE ScanClass(_, _)
ScanClass(pat, j) ==
    IF j > Len(pat) \/ pat[j] = "]" THEN j ELSE ScanClass(pat, j + 1)

\* The index of the "]" closing the class opened at pat[i], or 0 when none does.
ClassEnd(pat, i) ==
    LET j1 == IF i + 1 <= Len(pat) /\ pat[i + 1] = "!" THEN i + 2 ELSE i + 1
        j2 == IF j1 <= Len(pat) /\ pat[j1] = "]" THEN j1 + 1 ELSE j1
        j == ScanClass(pat, j2)
    IN  IF j > Len(pat) THEN 0 ELSE j

\* Whether character c is of the class pat[i] = "[" ... pat[e] = "]".
InClass(c, pat, i, e) ==
    LET negated == pat[i + 1] = "!"
        first == IF negated THEN i + 2 ELSE i + 1
        member ==
            \E k \in first..(e - 1) :
               \/ /\ pat[k] = c
                  /\ pat[k] # "-" \/ k = first \/ k = e - 1
               \/ /\ k + 2 <= e - 1
                  /\ pat[k + 1] = "-"
                  /\ Ord(pat[k]) <= Ord(c)
                  /\ Ord(c) <= Ord(pat[k + 2])
    IN  IF negated THEN ~member ELSE member

RECURSIVE GlobMatch(_, _, _, _)
GlobMatch(name, pat, n, i) ==
    IF i > Len(pat)
    THEN n > Len(name)
    ELSE IF pat[i] = "*"
         THEN GlobMatch(name, pat, n, i + 1)
                 \/ (n <= Len(name) /\ GlobMatch(name, pat, n + 1, i))
         ELSE IF pat[i] = "?"
              THEN n <= Len(name) /\ GlobMatch(name, pat, n + 1, i + 1)
              ELSE IF pat[i] = "[" /\ ClassEnd(pat, i) # 0
                   THEN /\ n <= Len(name)
                        /\ InClass(name[n], pat, i, ClassEnd(pat, i))
                        /\ GlobMatch(name, pat, n + 1, ClassEnd(pat, i) + 1)
                   ELSE /\ n <= Len(name)
                        /\ name[n] = pat[i]
                        /\ GlobMatch(name, pat, n + 1, i + 1)

Fnmatchcase(name, pat) == GlobMatch(name, pat, 1, 1)

(***************************************************************************)
(* _is_ignored, lines 374-384.                                             *)
(***************************************************************************)
RECURSIVE IsIgnoredFrom(_, _, _)
IsIgnoredFrom(ver, ignored_releases, i) ==
    IF i > Len(ignored_releases)
    THEN FALSE
    ELSE IF Fnmatchcase(ver, ignored_releases[i])
         THEN TRUE
         ELSE IsIgnoredFrom(ver, ignored_releases, i + 1)

\* Faulty variant of IsIgnored: the loop returns after its first pattern.
IsIgnoredFirstOnly(ver, ignored_releases) ==
    IF Len(ignored_releases) = 0 THEN FALSE ELSE Fnmatchcase(ver, ignored_releases[1])

IsIgnored(ver, ignored_releases) == IsIgnoredFrom(ver, ignored_releases, 1)

(***************************************************************************)
(* Specification SpecIgnored: _is_ignored is called with a version and a   *)
(* configured list of at most MaxPatterns patterns.                        *)
(***************************************************************************)
MaxPatterns == 2

Versions ==
    {<<"2", "0", "-", "a", "l", "p", "h", "a">>,
     <<"2", "0">>,
     <<"r", "a", "w", "h", "i", "d", "e">>,
     <<"R", "a", "w", "h", "i", "d", "e">>,
     <<"2", "1">>,
     <<"1", "0">>,
     <<"2">>,
     <<>>}

Patterns ==
    {<<"*", "-", "a", "l", "p", "h", "a">>,
     <<"r", "a", "w", "h", "i", "d", "e">>,
     <<"2", "?">>,
     <<"[", "1", "2", "]", "0">>,
     <<"[", "!", "2", "]", "*">>,
     <<"*">>,
     <<"2", "[", "0", "-", "1", "]">>,
     <<"[">>,
     <<"R", "*">>,
     <<"2", "*", "*">>}

InitIgnored ==
    /\ reportpackages = {}
    /\ unknownpackages = {}
    /\ reldesktops = {}
    /\ pc = "idle"
    /\ call = NoCall
    /\ package = NoPackage
    /\ seen = {}
    /\ target = NoTarget
    /\ ntimes = 0
    /\ arg \in [ver : Versions, ignored_releases : SeqsUpTo(Patterns, MaxPatterns)]
    /\ ret = NotCalled

is_ignored ==
    /\ ret = NotCalled
    /\ ret' = Returned(IsIgnored(arg.ver, arg.ignored_releases))
    /\ UNCHANGED <<store, pc, call, package, seen, target, ntimes, arg>>

NextIgnored == is_ignored

SpecIgnored == InitIgnored /\ [][NextIgnored]_vars

Orderings(n) == {q \in [1..n -> 1..n] : \A i, j \in 1..n : q[i] = q[j] => i = j}

Reordered(list, q) == [i \in 1..Len(list) |-> list[q[i]]]

\* Matches of a version against one pattern, as shell-style globbing defines them.
GlobExamples ==
    {<<<<"2", "0", "-", "a", "l", "p", "h", "a">>, <<"*", "-", "a", "l", "p", "h", "a">>, TRUE>>,
     <<<<"2", "0">>, <<"*", "-", "a", "l", "p", "h", "a">>, FALSE>>,
     <<<<"r", "a", "w", "h", "i", "d", "e">>, <<"r", "a", "w", "h", "i", "d", "e">>, TRUE>>,
     <<<<"R", "a", "w", "h", "i", "d", "e">>, <<"r", "a", "w", "h", "i", "d", "e">>, FALSE>>,
     <<<<"R", "a", "w", "h", "i", "d", "e">>, <<"R", "*">>, TRUE>>,
     <<<<"r", "a", "w", "h", "i", "d", "e">>, <<"R", "*">>, FALSE>>,
     <<<<"2", "0">>, <<"2", "?">>, TRUE>>,
     <<<<"2">>, <<"2", "?">>, FALSE>>,
     <<<<"1", "0">>, <<"[", "1", "2", "]", "0">>, TRUE>>,
     <<<<"2", "1">>, <<"[", "1", "2", "]", "0">>, FALSE>>,
     <<<<"1", "0">>, <<"[", "!", "2", "]", "*">>, TRUE>>,
     <<<<"2", "0">>, <<"[", "!", "2", "]", "*">>, FALSE>>,
     <<<<>>, <<"[", "!", "2", "]", "*">>, FALSE>>,
     <<<<>>, <<"*">>, TRUE>>,
     <<<<"2", "1">>, <<"2", "[", "0", "-", "1", "]">>, TRUE>>,
     <<<<"2">>, <<"2", "[", "0", "-", "1", "]">>, FALSE>>,
     <<<<"2", "0">>, <<"[">>, FALSE>>,
     <<<<"2">>, <<"2", "*", "*">>, TRUE>>,
     <<<<>>, <<"2", "*", "*">>, FALSE>>}

(***************************************************************************)
(* C9: _is_ignored returns true exactly when at least one pattern of the   *)
(* configured list matches the version by case-sensitive shell-style       *)
(* globbing, false for the empty list; the order of the patterns does not  *)
(* matter; no table changes.  With ["*-alpha", "rawhide"]: "20-alpha" is   *)
(* ignored, "20" is not, "rawhide" is.                                     *)
(***************************************************************************)
C9_IgnoreFilter ==
    ret # NotCalled =>
       LET list == arg.ignored_releases
       IN  /\ ret.kind = "return"
           /\ ret.value <=> \E i \in 1..Len(list) : Fnmatchcase(arg.ver, list[i])
           /\ list = <<>> => ret.value = FALSE
           /\ \A q \in Orderings(Len(list)) :
                 IsIgnored(arg.ver, Reordered(list, q)) = ret.value
           /\ \A ex \in GlobExamples :
                 (ex[1] = arg.ver /\ InList(ex[2], list) /\ ex[3]) => ret.value = TRUE
           /\ \A ex \in GlobExamples :
                 (ex[1] = arg.ver /\ list = <<ex[2]>>) => ret.value = ex[3]
           /\ list = <<<<"*", "-", "a", "l", "p", "h", "a">>, <<"r", "a", "w", "h", "i", "d", "e">>>> =>
                 /\ arg.ver = <<"2", "0", "-", "a", "l", "p", "h", "a">> => ret.value = TRUE
                 /\ arg.ver = <<"2", "0">> => ret.value = FALSE
                 /\ arg.ver = <<"r", "a", "w", "h", "i", "d", "e">> => ret.value = TRUE
           /\ StoreEmpty

C9_Witness ==
    /\ arg.ver = <<"r", "a", "w", "h", "i", "d", "e">>
    /\ arg.ignored_releases = <<<<"*", "-", "a", "l", "p", "h", "a">>, <<"r", "a", "w", "h", "i", "d", "e">>>>
    /\ ret = Returned(TRUE)

(***************************************************************************)
(* _release_to_branch, lines 333-354.  A string is a tuple of characters;  *)
(* "U+00B2" (superscript two) and "U+0665" (Arabic-Indic digit five) stand *)
(* for the one character of that code point.                               *)
(***************************************************************************)
AsciiDigits == <<"0", "1", "2", "3", "4", "5", "6", "7", "8", "9">>

UpperToLower ==
    {<<"R", "r">>, <<"A", "a">>, <<"W", "w">>, <<"H", "h">>, <<"I", "i">>, <<"D", "d">>,
     <<"E", "e">>, <<"F", "f">>, <<"B", "b">>, <<"C", "c">>}

\* str.lower(), line 340.
LowerChar(c) ==
    IF \E m \in UpperToLower : m[1] = c
    THEN (CHOOSE m \in UpperToLower : m[1] = c)[2]
    ELSE c

Lower(s) == [i \in 1..Len(s) |-> LowerChar(s[i])]

IsAsciiDigit(c) == \E d \in 1..10 : AsciiDigits[d] = c

\* The characters str.isdigit() accepts: the decimal digits of every script
\* and the digit-typed characters that are not decimal, as superscripts are.
IsDigitChar(c) == IsAsciiDigit(c) \/ c = "U+0665" \/ c = "U+00B2"

\* The characters int() accepts as a digit: the decimal digits of every script.
IsDecimalChar(c) == IsAsciiDigit(c) \/ c = "U+0665"

DecimalValue(c) ==
    IF c = "U+0665" THEN 5 ELSE (CHOOSE d \in 1..10 : AsciiDigits[d] = c) - 1

\* str.isdigit(), line 342: false for the empty string.
IsDigit(s) == Len(s) > 0 /\ \A i \in 1..Len(s) : IsDigitChar(s[i])

RECURSIVE IntFrom(_, _, _)
IntFrom(s, i, acc) ==
    IF i > Len(s) THEN acc ELSE IntFrom(s, i + 1, acc * 10 + DecimalValue(s[i]))

\* int(release), line 343: ValueError unless every character is a decimal digit.
IntParses(s) == \A i \in 1..Len(s) : IsDecimalChar(s[i])

ParseInt(s) == IntFrom(s, 1, 0)

RECURSIVE Decimal(_)
Decimal(n) ==
    IF n < 10 THEN <<AsciiDigits[n + 1]>> ELSE Decimal(n \div 10) \o <<AsciiDigits[(n % 10) + 1]>>

\* "{0}".format(n) and str(n) of an integer.
Format(n) == IF n < 0 THEN <<"-">> \o Decimal(0 - n) ELSE Decimal(n)

\* Lines 337-338.
ToStr(release) == IF release.type = "str" THEN release.value ELSE Format(release.value)

Rawhide == <<"r", "a", "w", "h", "i", "d", "e">>

ReleaseToBranch(rel) ==
    LET release == ToStr(rel)
    IN  IF Lower(release) = Rawhide
        THEN Returned(Rawhide)
        ELSE IF IsDigit(release)
             THEN IF ~IntParses(release)
                  THEN Raised("ValueError", release)
                  ELSE LET int_release == ParseInt(release)
                       IN  IF int_release < 6
                           THEN Returned(<<"F", "C", "-">> \o Format(int_release))
                           ELSE IF int_release = 6
                                THEN Returned(<<"f", "c">> \o Format(int_release))
                                ELSE Returned(<<"f">> \o Format(int_release))
             ELSE Raised("FafError", release)

(***************************************************************************)
(* Specification SpecBranch: _release_to_branch is called with a string or *)
(* an integer.                                                             *)
(***************************************************************************)
MaxDigits == 2

UpperChar(c) ==
    IF \E m \in UpperToLower : m[2] = c
    THEN (CHOOSE m \in UpperToLower : m[2] = c)[1]
    ELSE c

\* The word in every mix of upper and lower case.
CaseVariants(word) ==
    {[i \in 1..Len(word) |-> IF i \in S THEN UpperChar(word[i]) ELSE word[i]] :
        S \in SUBSET (1..Len(word))}

DigitStrings ==
    UNION {[1..n -> {"0", "1", "5", "6", "7", "U+0665", "U+00B2"}] : n \in 1..MaxDigits}

OtherStrings ==
    {<<>>,
     <<"a", "b", "c">>,
     <<"-", "5">>,
     <<"+", "5">>,
     <<" ", "5">>,
     <<"5", " ">>,
     <<"f", "2", "0">>,
     <<"6", ".", "0">>,
     <<"r", "a", "w", "h", "i", "d">>,
     <<"r", "a", "w", "h", "i", "d", "e", " ">>,
     <<"F", "C", "-", "5">>}

ReleaseStrings == CaseVariants(Rawhide) \cup DigitStrings \cup OtherStrings

ReleaseInts == {0 - 5, 0, 5, 6, 7, 20}

ReleaseArgs ==
    [type : {"str"}, value : ReleaseStrings] \cup [type : {"int"}, value : ReleaseInts]

InitBranch ==
    /\ reportpackages = {}
    /\ unknownpackages = {}
    /\ reldesktops = {}
    /\ pc = "idle"
    /\ call = NoCall
    /\ package = NoPackage
    /\ seen = {}
    /\ target = NoTarget
    /\ ntimes = 0
    /\ arg \in ReleaseArgs
    /\ ret = NotCalled

release_to_branch ==
    /\ ret = NotCalled
    /\ ret' = ReleaseToBranch(arg)
    /\ UNCHANGED <<store, pc, call, package, seen, target, ntimes, arg>>

NextBranch == release_to_branch

SpecBranch == InitBranch /\ [][NextBranch]_vars

\* A numeric string: not empty, every character a decimal digit.
NumericString(s) == Len(s) > 0 /\ \A i \in 1..Len(s) : IsDecimalChar(s[i])

\* The outcome the mapping is stated to have for the release string s.
StatedBranch(s) ==
    IF Lower(s) = Rawhide
    THEN Returned(Rawhide)
    ELSE IF NumericString(s)
         THEN IF ParseInt(s) < 6
              THEN Returned(<<"F", "C", "-">> \o Decimal(ParseInt(s)))
              ELSE IF ParseInt(s) = 6
                   THEN Returned(<<"f", "c", "6">>)
                   ELSE Returned(<<"f">> \o Decimal(ParseInt(s)))
         ELSE Raised("FafError", s)

(***************************************************************************)
(* C6: _release_to_branch is a total mapping with an error outcome:        *)
(* "rawhide" in any letter case maps to "rawhide"; a numeric string of     *)
(* value n maps to "FC-n" for n < 6, "fc6" for n = 6, "fn" for n > 6;      *)
(* every other input fails with the invalid-release error (FafError)       *)
(* carrying the offending value.  As stated.                               *)
(***************************************************************************)
C6_BranchMappingAsStated ==
    ret # NotCalled => ret = StatedBranch(ToStr(arg))

(***************************************************************************)
(* C6, as the code has it: the stated mapping holds for every input that   *)
(* holds no digit-typed character outside the decimal digits; an input     *)
(* str.isdigit() accepts and int() rejects leaves with ValueError.         *)
(***************************************************************************)
C6_BranchMapping ==
    ret # NotCalled =>
       LET s == ToStr(arg)
       IN  /\ (\A i \in 1..Len(s) : s[i] # "U+00B2") => ret = StatedBranch(s)
           /\ (IsDigit(s) /\ ~NumericString(s)) => ret = Raised("ValueError", s)
           /\ s = <<"5">> => ret = Returned(<<"F", "C", "-", "5">>)
           /\ s = <<"6">> => ret = Returned(<<"f", "c", "6">>)
           /\ s = <<"2", "0">> => ret = Returned(<<"f", "2", "0">>)
           /\ s = <<"a", "b", "c">> => ret = Raised("FafError", s)
           /\ s = <<>> => ret = Raised("FafError", s)
           /\ StoreEmpty

C6_Witness ==
    /\ arg = [type |-> "str", value |-> <<"U+00B2">>]
    /\ ret = Raised("ValueError", <<"U+00B2">>)

(***************************************************************************)
(* get_released_builds, lines 356-372.  A raw build is what listTagged     *)
(* returns: its epoch is <<>> for None and <<n>> for the integer n, its    *)
(* completion_time a string (a tuple of characters).                       *)
(***************************************************************************)
\* The order of str on the sort key, line 370: by code point, a proper prefix first.
StrLess(a, b) ==
    \E k \in 1..(Len(b)) :
       /\ \A j \in 1..(k - 1) : j <= Len(a) /\ a[j] = b[j]
       /\ \/ k = Len(a) + 1
          \/ k <= Len(a) /\ Ord(a[k]) < Ord(b[k])

\* sorted(..., key=completion_time, reverse=True), lines 369-371: descending and
\* stable, so b goes behind every build whose key is not less than its own.
InsertDescending(sorted, b) ==
    LET ahead == {i \in 1..Len(sorted) :
                     ~StrLess(sorted[i].completion_time, b.completion_time)}
        n == Cardinality(ahead)
    IN  SubSeq(sorted, 1, n) \o <<b>> \o SubSeq(sorted, n + 1, Len(sorted))

RECURSIVE SortedFrom(_, _, _)
SortedFrom(builds, i, acc) ==
    IF i > Len(builds) THEN acc ELSE SortedFrom(builds, i + 1, InsertDescending(acc, builds[i]))

SortedByCompletionTime(builds) == SortedFrom(builds, 1, <<>>)

(***************************************************************************)
(* datetime.strptime(s, "%Y-%m-%d %H:%M:%S.%f"), lines 366-367: seven runs *)
(* of digits with the separators of the format between them; the year has  *)
(* four digits, the fraction one to six, every other field one or two; a   *)
(* string of another shape, or a field out of its range, is a ValueError.  *)
(***************************************************************************)
Separators == <<"-", "-", " ", ":", ":", ".">>

RECURSIVE DigitRun(_, _)
DigitRun(s, i) ==
    IF i <= Len(s) /\ IsAsciiDigit(s[i]) THEN DigitRun(s, i + 1) ELSE i - 1

\* The seven fields of s from position i on, or <<>> when s has another shape.
RECURSIVE Fields(_, _, _)
Fields(s, i, k) ==
    LET e == DigitRun(s, i)
    IN  IF e < i
        THEN <<>>
        ELSE IF k = 7
             THEN IF e = Len(s) THEN <<SubSeq(s, i, e)>> ELSE <<>>
             ELSE IF e + 1 > Len(s) \/ s[e + 1] # Separators[k]
                  THEN <<>>
                  ELSE LET rest == Fields(s, e + 2, k + 1)
                       IN  IF rest = <<>> THEN <<>> ELSE <<SubSeq(s, i, e)>> \o rest

RECURSIVE Pow10(_)
Pow10(n) == IF n = 0 THEN 1 ELSE 10 * Pow10(n - 1)

IsLeap(year) == year % 4 = 0 /\ (year % 100 # 0 \/ year % 400 = 0)

DaysIn(year, month) ==
    IF month = 2
    THEN IF IsLeap(year) THEN 29 ELSE 28
    ELSE IF month \in {4, 6, 9, 11} THEN 30 ELSE 31

Strptime(s) ==
    LET f == Fields(s, 1, 1)
    IN  IF f = <<>>
        THEN Raised("ValueError", s)
        ELSE LET year == ParseInt(f[1])
                 month == ParseInt(f[2])
                 day == ParseInt(f[3])
                 hour == ParseInt(f[4])
                 minute == ParseInt(f[5])
                 second == ParseInt(f[6])
             IN  IF /\ Len(f[1]) = 4
                    /\ \A k \in 2..6 : Len(f[k]) <= 2
                    /\ Len(f[7]) <= 6
                    /\ month \in 1..12
                    /\ day \in 1..DaysIn(year, month)
                    /\ hour <= 23
                    /\ minute <= 59
                    /\ second <= 59
                 THEN Returned([year |-> year, month |-> month, day |-> day,
                                hour |-> hour, minute |-> minute, second |-> second,
                                microsecond |-> ParseInt(f[7]) * Pow10(6 - Len(f[7]))])
                 ELSE Raised("ValueError", s)

\* One element of the list built at lines 362-368.
BuildRecord(b) ==
    [name |-> b.name,
     epoch |-> IF b.epoch # <<>> THEN b.epoch[1] ELSE 0,
     version |-> b.version,
     release |-> b.release,
     nvr |-> b.nvr,
     completion_time |-> Strptime(b.completion_time).value]

GetReleasedBuilds(builds_release, builds_updates) ==
    LET sorted == SortedByCompletionTime(builds_release \o builds_updates)
        failing == {i \in 1..Len(sorted) : Strptime(sorted[i].completion_time).kind = "raise"}
    IN  IF failing # {}
        THEN Strptime(sorted[CHOOSE i \in failing : \A j \in failing : i <= j].completion_time)
        ELSE Returned([i \in 1..Len(sorted) |-> BuildRecord(sorted[i])])

(***************************************************************************)
(* Specification SpecBuilds: get_released_builds is called and the two     *)
(* listTagged queries answer with at most MaxBuilds raw builds each.       *)
(***************************************************************************)
MaxBuilds == 2

RawBuilds ==
    {[name |-> "foo", epoch |-> <<>>, version |-> "1.0", release |-> "1.fc20",
      nvr |-> "foo-1.0-1.fc20",
      completion_time |->
         <<"2", "0", "2", "3", "-", "0", "1", "-", "0", "1", " ", "0", "0", ":", "0", "0", ":", "0", "0", ".", "0", "0", "0", "0", "0", "0">>],
     [name |-> "foo", epoch |-> <<1>>, version |-> "1.0", release |-> "2.fc20",
      nvr |-> "foo-1.0-2.fc20",
      completion_time |->
         <<"2", "0", "2", "3", "-", "0", "3", "-", "0", "1", " ", "0", "0", ":", "0", "0", ":", "0", "0", ".", "0", "0", "0", "0", "0", "0">>],
     [name |-> "bar", epoch |-> <<>>, version |-> "2.0", release |-> "1.fc20",
      nvr |-> "bar-2.0-1.fc20",
      completion_time |->
         <<"2", "0", "2", "3", "-", "0", "2", "-", "0", "1", " ", "0", "0", ":", "0", "0", ":", "0", "0", ".", "0", "0", "0", "0", "0", "0">>],
     [name |-> "bar", epoch |-> <<0>>, version |-> "2.0", release |-> "2.fc20",
      nvr |-> "bar-2.0-2.fc20",
      completion_time |->
         <<"2", "0", "2", "3", "-", "0", "1", "-", "0", "1", " ", "0", "0", ":", "0", "0", ":", "0", "0", ".", "0", "0", "0", "0", "0", "0">>],
     [name |-> "baz", epoch |-> <<2>>, version |-> "3.0", release |-> "1.fc20",
      nvr |-> "baz-3.0-1.fc20",
      completion_time |->
         <<"2", "0", "2", "3", "-", "9", "-", "0", "1", " ", "1", "2", ":", "3", "0", ":", "0", "0", ".", "5">>],
     [name |-> "baz", epoch |-> <<>>, version |-> "3.0", release |-> "2.fc20",
      nvr |-> "baz-3.0-2.fc20",
      completion_time |->
         <<"2", "0", "2", "3", "-", "1", "0", "-", "0", "1", " ", "1", "2", ":", "3", "0", ":", "0", "0", ".", "2", "5">>]}

InitBuilds ==
    /\ reportpackages = {}
    /\ unknownpackages = {}
    /\ reldesktops = {}
    /\ pc = "idle"
    /\ call = NoCall
    /\ package = NoPackage
    /\ seen = {}
    /\ target = NoTarget
    /\ ntimes = 0
    /\ arg \in [builds_release : SeqsUpTo(RawBuilds, MaxBuilds),
                builds_updates : SeqsUpTo(RawBuilds, MaxBuilds)]
    /\ ret = NotCalled

get_released_builds ==
    /\ ret = NotCalled
    /\ ret' = GetReleasedBuilds(arg.builds_release, arg.builds_updates)
    /\ UNCHANGED <<store, pc, call, package, seen, target, ntimes, arg>>

NextBuilds == get_released_builds

SpecBuilds == InitBuilds /\ [][NextBuilds]_vars

\* The completion timestamp a raw build's string stands for, as the tuple
\* <<year, month, day, hour, minute, second, microsecond>>.
RECURSIVE FieldValues(_, _)
FieldValues(f, k) ==
    IF k > Len(f)
    THEN <<>>
    ELSE <<IF k = 7 THEN ParseInt(f[k]) * Pow10(6 - Len(f[k])) ELSE ParseInt(f[k])>>
            \o FieldValues(f, k + 1)

Timestamp(b) == FieldValues(Fields(b.completion_time, 1, 1), 1)

Later(t, u) ==
    \E k \in 1..7 : t[k] > u[k] /\ \A j \in 1..(k - 1) : t[j] = u[j]

\* The place the claim gives the i-th build of the concatenation: behind the
\* builds completed later and behind the earlier-listed builds completed at the same time.
Place(all, i) ==
    1 + Cardinality({j \in 1..Len(all) : Later(Timestamp(all[j]), Timestamp(all[i]))})
      + Cardinality({j \in 1..(i - 1) : Timestamp(all[j]) = Timestamp(all[i])})

(***************************************************************************)
(* C7: for any two sequences of raw builds A (base tag) and B (updates     *)
(* tag), get_released_builds returns exactly Len(A) + Len(B) records, one  *)
(* for every input record, most recent completion timestamp first, records *)
(* of equal completion time in their order in A followed by B, a null      *)
(* epoch turned into 0 and any other epoch passed through.  As stated.     *)
(***************************************************************************)
C7_BuildMergeAsStated ==
    ret # NotCalled =>
       LET all == arg.builds_release \o arg.builds_updates
       IN  /\ ret.kind = "return"
           /\ Len(ret.value) = Len(all)
           /\ \A i \in 1..Len(all) :
                 LET out == ret.value[Place(all, i)]
                 IN  /\ out.nvr = all[i].nvr
                     /\ out.name = all[i].name
                     /\ out.version = all[i].version
                     /\ out.release = all[i].release
                     /\ out.epoch = (IF all[i].epoch = <<>> THEN 0 ELSE all[i].epoch[1])

====
